---- MODULE Spec2Model ----
(***************************************************************************)
(* MemoryCache (extensions/memorycache/memorycache.js): a page-granular    *)
(* read-through cache in front of the asynchronous JsDbg memory reads.     *)
(*                                                                         *)
(* JavaScript runs one handler at a time, so every public call and every   *)
(* response handler is one atomic action.  The only suspension points are  *)
(* the JsDbg requests, which the model keeps in the log `remote` until the *)
(* debugger answers them, in any order.                                    *)
(***************************************************************************)
EXTENDS Integers, Sequences, FiniteSets, TLC

\* ------------------------------------------------------------------ bounds
MaxCalls == 2        \* public calls (ReadPointer/ReadNumber/ReadArray) per run
MaxClears == 1       \* execution-state changes (clearCache) per run
MaxSizeQueries == 3  \* GetPointerSize requests per run (caps the retry loop)
MaxTrigger == 2      \* largest hit threshold the threshold study configures
MaxItemSize == 16    \* largest element size the element-kind study requests
MaxCount == 3        \* array lengths of the array study: 0..MaxCount, and a
                     \* page's worth of elements more than MaxCount

\* ------------------------------------------------------- program constants
PAGE_SIZE == 4096
RETRIEVAL_SIZE == 4
CACHE_TRIGGER == 1

\* ------------------------------------------------------------- the debuggee
\* The byte at `address` while the debuggee is stopped for the e-th time.
\* The debuggee only runs (and so only changes memory) between two breaks.
MemByte(e, address) ==
    (address * 37 + (address \div PAGE_SIZE) * 11 + e * 101 + 5) % 256

\* The bytes of one element as JsDbg reads them from the debuggee, lowest
\* address first.  JsDbg and the typed arrays decode the same bytes with the
\* same (little-endian) rule, so a number is represented by its bytes.
RemoteElem(e, address, size) ==
    [k \in 1..size |-> MemByte(e, address + k - 1)]

\* result.array of a successful JsDbg.ReadArray answered at epoch e.
RemoteArray(e, address, size, count) ==
    [i \in 1..count |-> RemoteElem(e, address + (i - 1) * size, size)]

\* ------------------------------------------------------------ typed viewers
Nullish == {"null", "undefined"}

floatArrays == <<"Float32Array", "Float64Array">>
unsignedArrays ==
    <<"Uint8Array", "Uint16Array", "null", "Uint32Array", "null", "null", "null", "null">>
signedArrays ==
    <<"Int8Array", "Int16Array", "null", "Int32Array", "null", "null", "null", "null">>

\* arr[index] of a JavaScript array: undefined outside 0..length-1.
JsIndex(arr, index) ==
    IF index \in 0..(Len(arr) - 1) THEN arr[index + 1] ELSE "undefined"

\* Mutant: the float table is indexed like the integer tables.
getArrayViewerFloatBySize(size, isUnsigned, isFloat) ==
    IF isFloat THEN JsIndex(floatArrays, size - 1)
    ELSE IF isUnsigned THEN JsIndex(unsignedArrays, size - 1)
    ELSE JsIndex(signedArrays, size - 1)

getArrayViewer(size, isUnsigned, isFloat) ==
    IF isFloat
    THEN (IF size % 4 = 0 THEN JsIndex(floatArrays, size \div 4 - 1) ELSE "undefined")
    ELSE IF isUnsigned THEN JsIndex(unsignedArrays, size - 1)
    ELSE JsIndex(signedArrays, size - 1)

BYTES_PER_ELEMENT(viewer) ==
    CASE viewer \in {"Uint8Array", "Int8Array"} -> 1
      [] viewer \in {"Uint16Array", "Int16Array"} -> 2
      [] viewer \in {"Uint32Array", "Int32Array", "Float32Array"} -> 4
      [] viewer = "Float64Array" -> 8

\* ---------------------------------------------------------- page arithmetic
getPage(address) == address - (address % PAGE_SIZE)

\* Mutant: the byte offset is not divided by the element size.
getOffsetInBytes(address, size) == address % PAGE_SIZE

getOffset(address, size) == (address % PAGE_SIZE) \div size

\* --------------------------------------------------------- the page buffer
\* cacheEntry.memory after a successful fetch: the ArrayBuffer filled through
\* a Uint32Array view from result.array, the page as read at epoch `epoch`.
\* Word i of the fetch lands in bytes 4i..4i+3 of the buffer.
BufferByte(buffer, off) ==
    RemoteElem(buffer.epoch, buffer.base + (off \div RETRIEVAL_SIZE) * RETRIEVAL_SIZE,
               RETRIEVAL_SIZE)[(off % RETRIEVAL_SIZE) + 1]

\* new viewer(memory)
NewView(viewer, memory) == [kind |-> "view", viewer |-> viewer, buffer |-> memory]

ViewLength(view) == PAGE_SIZE \div BYTES_PER_ELEMENT(view.viewer)

\* view[index]
ViewElem(view, index) ==
    LET size == BYTES_PER_ELEMENT(view.viewer)
    IN [k \in 1..size |-> BufferByte(view.buffer, index * size + k - 1)]

\* ------------------------------------------------------------------- state
VARIABLES
    cache,              \* page -> index into heap of its entry, 0 when absent
    heap,               \* every cacheEntry object ever created (closures keep
                        \* an entry alive after clearCache dropped it)
    pointerSize,        \* 0 stands for undefined
    remote,             \* the JsDbg requests that await their answer
    issued,             \* number of JsDbg requests made so far
    sizeQueries,        \* number of JsDbg.GetPointerSize requests so far
    calls,              \* the public calls made so far, with their closures
    epoch,              \* number of execution-state changes so far
    cacheTrigger,       \* the value CACHE_TRIGGER is configured to
    targetPointerSize,  \* what the debuggee's platform answers GetPointerSize
    menu                \* the reads the callers of this run perform

vars == <<cache, heap, pointerSize, remote, issued, sizeQueries, calls, epoch,
          cacheTrigger, targetPointerSize, menu>>

Null == [kind |-> "null"]
Empty == [kind |-> "empty"]
Min(a, b) == IF a < b THEN a ELSE b

\* The module-level state the handlers read and write, as one value.
Machine ==
    [cache |-> cache, heap |-> heap, pointerSize |-> pointerSize,
     remote |-> remote, issued |-> issued, sizeQueries |-> sizeQueries,
     calls |-> calls]

\* A read of the workload: the arguments of one public call.
Read(op, address, size, isUnsigned, isFloat, count) ==
    [op |-> op, address |-> address, size |-> size, isUnsigned |-> isUnsigned,
     isFloat |-> isFloat, count |-> count]

Pages == {0, PAGE_SIZE, 2 * PAGE_SIZE}

\* --------------------------------------------------------------- PageStore
NewCacheEntry(page) ==
    [page |-> page, hits |-> 0, memory |-> Null, error |-> Null,
     inflight |-> FALSE, callbacks |-> <<>>,
     born |-> epoch,          \* bookkeeping: the epoch of creation
     fetches |-> 0,           \* bookkeeping: page fetches issued for the entry
     notified |-> <<>>]       \* bookkeeping: the closures a completed fetch
                              \* of the entry has called, in call order

getCacheEntry(m, page) ==
    IF m.cache[page] = 0
    THEN [m EXCEPT !.heap = Append(@, NewCacheEntry(page)),
                   !.cache[page] = Len(m.heap) + 1]
    ELSE m

\* Mutant: the listener leaves the entries in place.
clearCacheKeepsEntries(m) == m

clearCache(m) == [m EXCEPT !.cache = [p \in Pages |-> 0]]

\* ------------------------------------------------------------- JsDbg calls
Request(fn, c, entry, address, size, isUnsigned, isFloat, count) ==
    [id |-> 0, fn |-> fn, call |-> c, entry |-> entry, address |-> address,
     size |-> size, isUnsigned |-> isUnsigned, isFloat |-> isFloat, count |-> count]

\* A call of JsDbg.ReadArray, JsDbg.ReadNumber or JsDbg.GetPointerSize made
\* while call c runs: the request waits in `remote` under a fresh id.
JsDbgCall(m, request) ==
    LET c == request.call
        m1 == [m EXCEPT !.remote = @ \cup {[request EXCEPT !.id = m.issued + 1]},
                        !.issued = @ + 1,
                        !.calls[c].requests = @ + 1,
                        !.calls[c].uncached =
                            IF request.fn # "GetPointerSize" /\ request.entry = 0
                            THEN Append(@, request.fn) ELSE @,
                        !.sizeQueries =
                            IF request.fn = "GetPointerSize" THEN @ + 1 ELSE @]
    IN IF request.entry # 0
       THEN [m1 EXCEPT !.heap[request.entry].fetches = @ + 1]
       ELSE m1

\* ---------------------------------------------------- the callers' closures
\* The continuation the caller passed in: it is invoked with `payload`.
Continuation(m, c, payload) ==
    [m EXCEPT !.calls[c].delivered = @ + 1, !.calls[c].result = payload]

\* Mutant: the view is indexed by the byte offset within the page.
numberLoadedByteIndex(m, c, view) ==
    LET call == m.calls[c]
        m1 == [m EXCEPT !.calls[c].loadedViews = <<view>>]
    IN IF view.kind = "error"
       THEN Continuation(m1, c, view)
       ELSE Continuation(m1, c,
                [kind |-> "value",
                 value |-> ViewElem(view, call.address % PAGE_SIZE)])

\* readNumber's callback handed to loadPage (lines 130-136).
numberLoaded(m, c, view) ==
    LET call == m.calls[c]
        m1 == [m EXCEPT !.calls[c].loadedViews = <<view>>]
    IN IF view.kind = "error"
       THEN Continuation(m1, c, view)
       ELSE Continuation(m1, c,
                [kind |-> "value",
                 value |-> ViewElem(view, getOffset(call.address, call.size))])

\* The views.forEach of readArray's callback (lines 190-207), from view k on.
RECURSIVE gatherViews(_, _, _, _)
gatherViews(call, views, k, acc) ==
    IF k > Len(views) THEN acc
    ELSE LET view == views[k]
             remainingElements == call.count - Len(acc.result)
             lastIndexInCurrentPage ==
                 Min(acc.indexInCurrentPage + remainingElements, ViewLength(view))
             gathered ==
                 IF lastIndexInCurrentPage > acc.indexInCurrentPage
                 THEN [j \in 1..(lastIndexInCurrentPage - acc.indexInCurrentPage) |->
                          ViewElem(view, acc.indexInCurrentPage + j - 1)]
                 ELSE <<>>
         IN gatherViews(call, views, k + 1,
                IF acc.firstError.kind # "null" THEN acc
                ELSE IF view.kind = "error" THEN [acc EXCEPT !.firstError = view]
                ELSE [acc EXCEPT !.result = @ \o gathered,
                                 !.indexInCurrentPage = 0])

\* Mutant: the last page carrying an error decides the reported error.
arrayLoadedLastError(m, c, views) ==
    LET call == m.calls[c]
        done == gatherViews(call, views, 1,
                    [result |-> <<>>,
                     indexInCurrentPage |-> getOffset(call.address, call.size),
                     firstError |-> Null])
        errors == {k \in DOMAIN views : views[k].kind = "error"}
        m1 == [m EXCEPT !.calls[c].assembled = @ + 1]
    IN IF errors # {}
       THEN Continuation(m1, c, views[CHOOSE k \in errors : \A j \in errors : j <= k])
       ELSE Continuation(m1, c, [kind |-> "array", array |-> done.result])

\* readArray's callback handed to requestPages (lines 183-214).
arrayLoaded(m, c, views) ==
    LET call == m.calls[c]
        done == gatherViews(call, views, 1,
                    [result |-> <<>>,
                     indexInCurrentPage |-> getOffset(call.address, call.size),
                     firstError |-> Null])
        m1 == [m EXCEPT !.calls[c].assembled = @ + 1]
    IN IF done.firstError.kind # "null"
       THEN Continuation(m1, c, done.firstError)
       ELSE Continuation(m1, c, [kind |-> "array", array |-> done.result])

\* requestPages' pageLoaded for page i of the span (lines 163-169).
pageLoaded(m, c, i, view) ==
    LET m1 == [m EXCEPT !.calls[c].loadedViews[i] = view,
                        !.calls[c].remainingViews = @ - 1]
    IN IF m1.calls[c].remainingViews = 0 /\ m1.calls[c].areAllPagesEligible
       THEN arrayLoaded(m1, c, m1.calls[c].loadedViews)
       ELSE m1

\* A waiter is loadPage's memoryCallback closure: it remembers the viewer and
\* the callback (numberLoaded of call c, or pageLoaded of page i of call c).
Waiter(c, i, viewer) == [call |-> c, index |-> i, viewer |-> viewer]

\* memoryCallback (lines 65-71).
memoryCallback(m, w, memory) ==
    LET arg == IF memory.kind = "error" THEN memory ELSE NewView(w.viewer, memory)
    IN IF m.calls[w.call].op = "arr"
       THEN pageLoaded(m, w.call, w.index, arg)
       ELSE numberLoaded(m, w.call, arg)

\* ---------------------------------------------------------------- loadPage
\* cacheEntry.callbacks.push(memoryCallback) (lines 79 and 101).
enqueue(m, id, w) ==
    [m EXCEPT !.heap[id].callbacks = Append(@, w),
              !.calls[w.call].queued = @ + 1]

\* The branch of loadPage that issues the page fetch (lines 76-98, up to the
\* JsDbg.ReadArray call): mark the entry, queue the caller, ask for the page.
startFetch(m, id, w) ==
    JsDbgCall(enqueue([m EXCEPT !.heap[id].inflight = TRUE], id, w),
              Request("ReadArray", w.call, id, m.heap[id].page, RETRIEVAL_SIZE,
                      TRUE, FALSE, PAGE_SIZE \div RETRIEVAL_SIZE))

\* Mutant: the fetch is issued on every touch from the threshold on.
reachedTriggerOrPast(hits) == hits >= cacheTrigger

\* Mutant: the fetch is issued one touch early.
reachedTriggerEarly(hits) == hits = cacheTrigger - 1

\* Mutant: the touch after the threshold issues a fetch as well.
reachedTriggerTwice(hits) == hits \in {cacheTrigger, cacheTrigger + 1}

\* Mutant: the fetch is issued one touch late.
reachedTriggerLate(hits) == hits = cacheTrigger + 1

\* cacheEntry.hits == CACHE_TRIGGER
reachedTrigger(hits) == hits = cacheTrigger

\* loadPage(page, viewer, callback): the machine afterwards and the boolean
\* it returns (ok).  w is the memoryCallback closure built for this caller.
\* id and hits report the entry touched and its hit count after the touch
\* (0 when the viewer gate declined before any entry was looked up).
loadPage(m, page, w) ==
    IF w.viewer \in Nullish
    THEN [m |-> m, ok |-> FALSE, id |-> 0, hits |-> 0]
    ELSE LET m1 == getCacheEntry(m, page)
             id == m1.cache[page]
             m2 == [m1 EXCEPT !.heap[id].hits = @ + 1]
             cacheEntry == m2.heap[id]
             done(mm, ok) == [m |-> mm, ok |-> ok, id |-> id, hits |-> cacheEntry.hits]
         IN IF cacheEntry.memory.kind # "null"
            THEN done(memoryCallback(m2, w, cacheEntry.memory), TRUE)
            ELSE IF reachedTrigger(cacheEntry.hits)
            THEN done(startFetch(m2, id, w), TRUE)
            ELSE IF cacheEntry.inflight
            THEN done(enqueue(m2, id, w), TRUE)
            ELSE done(m2, FALSE)

\* What a caller of loadPage keeps of the outcome for page i of call c
\* (bookkeeping only: the program keeps none of it).
Noted(m, c, r) ==
    [m EXCEPT !.calls[c].admitted = Append(@, r.ok),
              !.calls[c].touched = Append(@, r.id),
              !.calls[c].hitsAt = Append(@, r.hits)]

\* The completion handler of the page fetch (lines 81-98) for entry id.
\* result is an error payload or the page as JsDbg returned it.
\* cacheEntry.callbacks.forEach (line 96) from callback k on; each call is
\* recorded in the entry's `notified`.
RECURSIVE notifyCallbacks(_, _, _, _, _)
notifyCallbacks(m, id, callbacks, k, memory) ==
    IF k > Len(callbacks) THEN m
    ELSE notifyCallbacks(
             [memoryCallback(m, callbacks[k], memory) EXCEPT
                 !.heap[id].notified = Append(@, callbacks[k])],
             id, callbacks, k + 1, memory)

\* Mutant: only the first waiter is notified.
pageFetchedNotifiesFirst(m, id, result) ==
    LET m1 == IF result.kind = "error"
              THEN [m EXCEPT !.heap[id].memory = result]
              ELSE [m EXCEPT !.heap[id].inflight = FALSE,
                             !.heap[id].memory = result]
        m2 == notifyCallbacks(m1, id, SubSeq(m1.heap[id].callbacks, 1, 1), 1,
                              m1.heap[id].memory)
    IN [m2 EXCEPT !.heap[id].callbacks = <<>>]

\* Mutant: the queue is walked from its newest closure to its oldest.
pageFetchedNotifiesNewestFirst(m, id, result) ==
    LET m1 == IF result.kind = "error"
              THEN [m EXCEPT !.heap[id].memory = result]
              ELSE [m EXCEPT !.heap[id].inflight = FALSE,
                             !.heap[id].memory = result]
        queue == m1.heap[id].callbacks
        m2 == notifyCallbacks(m1, id, [k \in 1..Len(queue) |-> queue[Len(queue) + 1 - k]],
                              1, m1.heap[id].memory)
    IN [m2 EXCEPT !.heap[id].callbacks = <<>>]

\* Mutant: the handler looks the page up in the cache again instead of using
\* the entry its closure holds.
pageFetchedIntoCurrentEntry(m, id, result) ==
    LET page == m.heap[id].page
        cur == IF m.cache[page] # 0 THEN m.cache[page] ELSE id
        m1 == IF result.kind = "error"
              THEN [m EXCEPT !.heap[cur].memory = result]
              ELSE [m EXCEPT !.heap[cur].inflight = FALSE,
                             !.heap[cur].memory = result]
        m2 == notifyCallbacks(m1, id, m1.heap[id].callbacks, 1, m1.heap[cur].memory)
    IN [m2 EXCEPT !.heap[id].callbacks = <<>>]

\* Mutant: the queue is not emptied after the closures were called.
pageFetchedKeepsQueue(m, id, result) ==
    LET m1 == IF result.kind = "error"
              THEN [m EXCEPT !.heap[id].memory = result]
              ELSE [m EXCEPT !.heap[id].inflight = FALSE,
                             !.heap[id].memory = result]
    IN notifyCallbacks(m1, id, m1.heap[id].callbacks, 1, m1.heap[id].memory)

pageFetched(m, id, result) ==
    LET m1 == IF result.kind = "error"
              THEN [m EXCEPT !.heap[id].memory = result]
              ELSE [m EXCEPT !.heap[id].inflight = FALSE,
                             !.heap[id].memory = result]
        m2 == notifyCallbacks(m1, id, m1.heap[id].callbacks, 1, m1.heap[id].memory)
    IN [m2 EXCEPT !.heap[id].callbacks = <<>>]

\* -------------------------------------------------------------- readNumber
readNumber(m, c, size, isUnsigned, isFloat) ==
    LET m0 == [m EXCEPT !.calls[c].size = size,
                        !.calls[c].isUnsigned = isUnsigned,
                        !.calls[c].isFloat = isFloat]
        address == m0.calls[c].address
        viewer == getArrayViewer(size, isUnsigned, isFloat)
        r == loadPage(m0, getPage(address), Waiter(c, 1, viewer))
        m1 == [Noted(r.m, c, r) EXCEPT
                  !.calls[c].viewer = viewer,
                  !.calls[c].canUseCache = IF r.ok THEN "yes" ELSE "no"]
    IN IF ~r.ok
       THEN JsDbgCall(m1, Request("ReadNumber", c, 0, address, size, isUnsigned,
                                  isFloat, 1))
       ELSE m1

\* ------------------------------------------------------------- readPointer
readPointer(m, c) ==
    IF m.pointerSize = 0
    THEN JsDbgCall(m, Request("GetPointerSize", c, 0, 0, 0, FALSE, FALSE, 0))
    ELSE readNumber(m, c, m.pointerSize, TRUE, FALSE)

\* The handler of the GetPointerSize answer (lines 115-120); result.pointerSize
\* is undefined (0) when the answer is an error payload.
pointerSizeAnswered(m, c, result) ==
    readPointer([m EXCEPT !.pointerSize =
                    IF result.kind = "error" THEN 0 ELSE result.pointerSize], c)

\* --------------------------------------------------------------- readArray
RECURSIVE pagesFrom(_, _)
pagesFrom(currentPage, lastAddress) ==
    IF currentPage < lastAddress
    THEN <<currentPage>> \o pagesFrom(currentPage + PAGE_SIZE, lastAddress)
    ELSE <<>>

calculatePagesForArray(address, itemSize, count) ==
    pagesFrom(getPage(address), address + itemSize * count)

\* pages.forEach of requestPages (lines 162-174), from page i on.
RECURSIVE requestPagesFrom(_, _, _, _, _)
requestPagesFrom(m, c, pages, viewer, i) ==
    IF i > Len(pages) THEN m
    ELSE LET r == loadPage(m, pages[i], Waiter(c, i, viewer))
         IN requestPagesFrom(
                IF r.ok THEN Noted(r.m, c, r)
                ELSE [Noted(r.m, c, r) EXCEPT !.calls[c].areAllPagesEligible = FALSE],
                c, pages, viewer, i + 1)

\* Mutant: the outcome of each page overwrites areAllPagesEligible.
requestPagesLastDecides(m, c, pages, viewer) ==
    LET m1 == requestPagesFrom(
                  [m EXCEPT !.calls[c].areAllPagesEligible = TRUE,
                            !.calls[c].loadedViews = [i \in 1..Len(pages) |-> Empty],
                            !.calls[c].remainingViews = Len(pages)],
                  c, pages, viewer, 1)
        admitted == m1.calls[c].admitted
    IN IF admitted = <<>> THEN m1
       ELSE [m1 EXCEPT !.calls[c].areAllPagesEligible = admitted[Len(admitted)]]

\* Mutant: the walk over the pages ends at the first page that is declined.
RECURSIVE requestPagesUntilDecline(_, _, _, _, _)
requestPagesUntilDecline(m, c, pages, viewer, i) ==
    IF i > Len(pages) THEN m
    ELSE LET r == loadPage(m, pages[i], Waiter(c, i, viewer))
         IN IF r.ok
            THEN requestPagesUntilDecline(Noted(r.m, c, r), c, pages, viewer, i + 1)
            ELSE [Noted(r.m, c, r) EXCEPT !.calls[c].areAllPagesEligible = FALSE]

requestPagesStopsAtDecline(m, c, pages, viewer) ==
    requestPagesUntilDecline(
        [m EXCEPT !.calls[c].areAllPagesEligible = TRUE,
                  !.calls[c].loadedViews = [i \in 1..Len(pages) |-> Empty],
                  !.calls[c].remainingViews = Len(pages)],
        c, pages, viewer, 1)

requestPages(m, c, pages, viewer) ==
    requestPagesFrom(
        [m EXCEPT !.calls[c].areAllPagesEligible = TRUE,
                  !.calls[c].loadedViews = [i \in 1..Len(pages) |-> Empty],
                  !.calls[c].remainingViews = Len(pages)],
        c, pages, viewer, 1)

readArray(m, c) ==
    LET call == m.calls[c]
        viewer == getArrayViewer(call.size, call.isUnsigned, call.isFloat)
        pagesToRequest == calculatePagesForArray(call.address, call.size, call.count)
        m1 == requestPages(m, c, pagesToRequest, viewer)
        canUseCache == m1.calls[c].areAllPagesEligible
        m2 == [m1 EXCEPT !.calls[c].viewer = viewer,
                         !.calls[c].canUseCache = IF canUseCache THEN "yes" ELSE "no"]
    IN IF ~canUseCache
       THEN JsDbgCall(m2, Request("ReadArray", c, 0, call.address, call.size,
                                  call.isUnsigned, call.isFloat, call.count))
       ELSE m2

\* ----------------------------------------------------------------- actions
NewCall(read) ==
    [op |-> read.op, address |-> read.address, size |-> read.size,
     isUnsigned |-> read.isUnsigned, isFloat |-> read.isFloat, count |-> read.count,
     viewer |-> "unset", canUseCache |-> "unset", areAllPagesEligible |-> TRUE, loadedViews |-> <<>>,
     remainingViews |-> 0, delivered |-> 0, result |-> Null,
     \* bookkeeping, none of it read by the program:
     epoch |-> epoch,         \* when the call was made
     requests |-> 0,          \* JsDbg requests made while the call ran
     uncached |-> <<>>,       \* the uncached JsDbg reads among them, by name
     admitted |-> <<>>,       \* what loadPage returned for each page
     touched |-> <<>>,        \* the entry loadPage touched for each page
     hitsAt |-> <<>>,         \* that entry's hit count after the touch
     queued |-> 0,            \* times a closure of the call was queued
     assembled |-> 0]         \* times readArray's cached callback ran

\* The machine with one more call, which gets the next index.
Called(read) == [Machine EXCEPT !.calls = Append(@, NewCall(read))]

Commit(m) ==
    /\ cache' = m.cache
    /\ heap' = m.heap
    /\ pointerSize' = m.pointerSize
    /\ remote' = m.remote
    /\ issued' = m.issued
    /\ sizeQueries' = m.sizeQueries
    /\ calls' = m.calls

\* The machine once request r has left for its handler.
Answered(r) == [Machine EXCEPT !.remote = @ \ {r}]

\* An error payload: opaque, told apart by the request it answers.
Error(r) == [kind |-> "error", error |-> r.id, at |-> epoch]

\* MemoryCache.ReadPointer(address, callback)
ReadPointer ==
    /\ Len(calls) < MaxCalls
    /\ \E read \in menu :
          /\ read.op = "ptr"
          /\ Commit(readPointer(Called(read), Len(calls) + 1))
    /\ UNCHANGED <<epoch, cacheTrigger, targetPointerSize, menu>>

\* MemoryCache.ReadNumber(address, size, isUnsigned, isFloat, callback)
ReadNumber ==
    /\ Len(calls) < MaxCalls
    /\ \E read \in menu :
          /\ read.op = "num"
          /\ Commit(readNumber(Called(read), Len(calls) + 1, read.size,
                               read.isUnsigned, read.isFloat))
    /\ UNCHANGED <<epoch, cacheTrigger, targetPointerSize, menu>>

\* MemoryCache.ReadArray(address, itemSize, isUnsigned, isFloat, count, callback)
ReadArray ==
    /\ Len(calls) < MaxCalls
    /\ \E read \in menu :
          /\ read.op = "arr"
          /\ Commit(readArray(Called(read), Len(calls) + 1))
    /\ UNCHANGED <<epoch, cacheTrigger, targetPointerSize, menu>>

\* The debugger breaks in again: the registered listener runs (line 223).
OnBreak ==
    /\ epoch < MaxClears
    /\ epoch' = epoch + 1
    /\ Commit(clearCache(Machine))
    /\ UNCHANGED <<cacheTrigger, targetPointerSize, menu>>

\* JsDbg answers a page fetch, with the page (ok) or with an error.
PageFetchAnsweredWith(ok) ==
    \E r \in remote :
        /\ r.fn = "ReadArray"
        /\ r.entry # 0
        /\ Commit(pageFetched(Answered(r), r.entry,
                     IF ok THEN [kind |-> "buffer", base |-> r.address, epoch |-> epoch]
                     ELSE Error(r)))
        /\ UNCHANGED <<epoch, cacheTrigger, targetPointerSize, menu>>

PageFetchAnswered == \E ok \in BOOLEAN : PageFetchAnsweredWith(ok)

\* JsDbg answers an uncached ReadNumber: the caller's callback gets the answer.
UncachedNumberAnswered ==
    \E r \in remote, ok \in BOOLEAN :
        /\ r.fn = "ReadNumber"
        /\ Commit(Continuation(Answered(r), r.call,
                     IF ok THEN [kind |-> "value",
                                 value |-> RemoteElem(epoch, r.address, r.size)]
                     ELSE Error(r)))
        /\ UNCHANGED <<epoch, cacheTrigger, targetPointerSize, menu>>

\* JsDbg answers an uncached ReadArray: the caller's callback gets the answer.
UncachedArrayAnswered ==
    \E r \in remote, ok \in BOOLEAN :
        /\ r.fn = "ReadArray"
        /\ r.entry = 0
        /\ Commit(Continuation(Answered(r), r.call,
                     IF ok THEN [kind |-> "array",
                                 array |-> RemoteArray(epoch, r.address, r.size, r.count)]
                     ELSE Error(r)))
        /\ UNCHANGED <<epoch, cacheTrigger, targetPointerSize, menu>>

\* JsDbg answers GetPointerSize.  A failed query is asked again by the handler,
\* so failures are only drawn while the run may still issue such a query.
PointerSizeAnswered ==
    \E r \in remote, ok \in BOOLEAN :
        /\ r.fn = "GetPointerSize"
        /\ ok \/ sizeQueries < MaxSizeQueries
        /\ Commit(pointerSizeAnswered(Answered(r), r.call,
                     IF ok THEN [kind |-> "pointerSize",
                                 pointerSize |-> targetPointerSize]
                     ELSE Error(r)))
        /\ UNCHANGED <<epoch, cacheTrigger, targetPointerSize, menu>>

Next ==
    \/ ReadPointer
    \/ ReadNumber
    \/ ReadArray
    \/ OnBreak
    \/ PageFetchAnswered
    \/ UncachedNumberAnswered
    \/ UncachedArrayAnswered
    \/ PointerSizeAnswered

\* ------------------------------------------------------------------ workload
\* The callers of one run draw their reads from one scenario.
SamePage ==         \* reads that meet on the second page, one of them straddling
    { Read("num", 2 * PAGE_SIZE - 4, 4, TRUE, FALSE, 1),
      Read("arr", PAGE_SIZE - 8, 4, TRUE, FALSE, 3) }
Degenerate ==       \* empty arrays and an unsupported kind
    { Read("arr", PAGE_SIZE, 4, TRUE, FALSE, 0),
      Read("arr", PAGE_SIZE + 4, 2, FALSE, FALSE, 0),
      Read("arr", PAGE_SIZE - 6, 3, TRUE, FALSE, 4),
      Read("num", 16, 8, TRUE, FALSE, 1) }
Pointers ==         \* pointer reads
    { Read("ptr", PAGE_SIZE - 4, 0, TRUE, FALSE, 1) }

Scenarios == {SamePage, Degenerate, Pointers}

PointerSizes == {4, 8}

InitMachine ==
    /\ cache = [p \in Pages |-> 0]
    /\ heap = <<>>
    /\ pointerSize = 0
    /\ remote = {}
    /\ issued = 0
    /\ sizeQueries = 0
    /\ calls = <<>>
    /\ epoch = 0

Init ==
    /\ InitMachine
    /\ cacheTrigger = CACHE_TRIGGER
    /\ targetPointerSize \in PointerSizes
    /\ menu \in Scenarios

Spec == Init /\ [][Next]_vars

\* The threshold study: the same program with CACHE_TRIGGER configured to any
\* value up to MaxTrigger.
InitTrigger ==
    /\ InitMachine
    /\ cacheTrigger \in 1..MaxTrigger
    /\ targetPointerSize \in PointerSizes
    /\ menu \in Scenarios

SpecTrigger == InitTrigger /\ [][Next]_vars

\* ------------------------------------------------------------ vocabulary
Entries == DOMAIN heap
Calls == DOMAIN calls

\* The entry's page fetch has been issued and has not completed.
FetchInFlight(e) == e.inflight /\ e.memory.kind = "null"

\* The pending page fetches of entry id.
FetchesOf(id) == {r \in remote : r.fn = "ReadArray" /\ r.entry = id}

IsFullPageFetch(r, page) ==
    /\ r.address = page
    /\ r.size = RETRIEVAL_SIZE
    /\ r.isUnsigned
    /\ ~r.isFloat
    /\ r.count = PAGE_SIZE \div RETRIEVAL_SIZE

RECURSIVE SumOver(_, _)
SumOver(S, f) ==
    IF S = {} THEN 0
    ELSE LET x == CHOOSE y \in S : TRUE IN f[x] + SumOver(S \ {x}, f)

\* Page fetches issued for page p during the session that began at break k.
FetchesInSession(p, k) ==
    SumOver({id \in Entries : heap[id].page = p /\ heap[id].born = k},
            [id \in Entries |-> heap[id].fetches])

\* ----------------------------------------------------------------- C1
\* In every session (the time between two invalidations) at most one page
\* fetch is issued per page, and it asks for the whole page.
OneFetchPerSession ==
    /\ \A p \in Pages, k \in 0..epoch : FetchesInSession(p, k) <= 1
    /\ \A id \in Entries :
          FetchInFlight(heap[id]) =>
              /\ Cardinality(FetchesOf(id)) = 1
              /\ \A r \in FetchesOf(id) : IsFullPageFetch(r, heap[id].page)

\* A step in which a read touches an entry whose fetch is in flight queues one
\* more waiter on it and sends JsDbg nothing for that page.
QueuedBehindFetch ==
    \A id \in Entries :
        (FetchInFlight(heap[id]) /\ heap'[id].hits > heap[id].hits) =>
            /\ Len(heap'[id].callbacks) = Len(heap[id].callbacks) + 1
            /\ SubSeq(heap'[id].callbacks, 1, Len(heap[id].callbacks)) = heap[id].callbacks
            /\ heap'[id].fetches = heap[id].fetches
            /\ \A r \in remote' \ remote :
                  r.fn = "GetPointerSize" \/ getPage(r.address) # heap[id].page

\* C1: coalescing.  Between two consecutive invalidations at most one full-page
\* fetch is issued per page, whatever reads touch it and however they interleave
\* with the fetch's completion; a read that arrives while the fetch is in flight
\* is queued on the entry and sends no request of its own for that page.
C1_Coalescing == []OneFetchPerSession /\ [][QueuedBehindFetch]_vars

\* Two reads have met on one entry: one fetch, two waiters.
C1_Witness ==
    \E id \in Entries :
        /\ FetchInFlight(heap[id])
        /\ Len(heap[id].callbacks) >= 2
        /\ heap[id].fetches = 1

\* ----------------------------------------------------------------- C2
\* Nothing is left that could still invoke the continuation of call c: no
\* request made for it awaits its answer and no closure of it is queued.
Settled(c) ==
    /\ \A r \in remote : r.call # c
    /\ \A id \in Entries : \A k \in DOMAIN heap[id].callbacks :
          heap[id].callbacks[k].call # c

IsRead(c) == calls[c].op \in {"num", "arr"}

\* C2: every ReadNumber and ReadArray call invokes the caller's continuation
\* exactly once: never twice, and once JsDbg has answered every request the
\* call depends on, not zero times either (count = 0 included).
C2_ExactlyOnce ==
    \A c \in Calls :
        IsRead(c) =>
            /\ calls[c].delivered <= 1
            /\ Settled(c) => calls[c].delivered = 1

\* ----------------------------------------------------------------- C3
\* What a closure of call c was handed: a view of a buffer, or an error.
Handed(c) == {calls[c].loadedViews[i] : i \in DOMAIN calls[c].loadedViews}

\* The session in which the bytes or the error of x were obtained from JsDbg.
ObtainedAt(x) ==
    CASE x.kind = "view" -> x.buffer.epoch
      [] x.kind = "error" -> x.at
      [] OTHER -> epoch

\* C3: invalidation.  After the listener ran the cache holds nothing older than
\* the current session, so a read of a page that was cached before gets a new
\* entry with a page fetch of its own; and no read is answered from bytes or an
\* error that the cache obtained before the invalidation the read came after.
C3_Invalidation ==
    /\ \A p \in Pages :
          cache[p] # 0 =>
              /\ heap[cache[p]].page = p
              /\ heap[cache[p]].born = epoch
              /\ heap[cache[p]].fetches = 1
    /\ \A c \in Calls :
          /\ \A x \in Handed(c) : ObtainedAt(x) >= calls[c].epoch
          /\ ObtainedAt(calls[c].result) >= calls[c].epoch

\* A page cached in session 0 was read again in session 1: the second read got
\* a second entry and was answered from that entry's own fetch.
C3_Witness ==
    \E old, new \in Entries, c \in Calls :
        /\ heap[old].born = 0 /\ heap[old].memory.kind = "buffer"
        /\ heap[new].born = 1 /\ heap[new].page = heap[old].page
        /\ heap[new].fetches = 1
        /\ calls[c].epoch = 1 /\ calls[c].touched = <<new>>
        /\ calls[c].delivered = 1 /\ calls[c].result.kind = "value"

\* ----------------------------------------------------------------- C4
\* The pages of call c that loadPage looked up an entry for.
TouchedPages(c) == {i \in DOMAIN calls[c].touched : calls[c].touched[i] # 0}

\* What the closure of call c for its page i was handed, Empty while it waits.
HandedFor(c, i) ==
    IF i \in DOMAIN calls[c].loadedViews THEN calls[c].loadedViews[i] ELSE Empty

\* C4: error fan-out without retry.  Once a page's fetch has failed, every read
\* that touched the entry, queued before the failure or arriving after it, has
\* been handed that one error payload; the queue is empty, and neither a second
\* fetch of the page nor an uncached read has been issued for such a read.
C4_ErrorFanOut ==
    \A id \in Entries :
        heap[id].memory.kind = "error" =>
            /\ heap[id].fetches = 1
            /\ FetchesOf(id) = {}
            /\ heap[id].callbacks = <<>>
            /\ \A c \in Calls : \A i \in TouchedPages(c) :
                  calls[c].touched[i] = id =>
                      /\ calls[c].admitted[i]
                      /\ HandedFor(c, i) = heap[id].memory
                      /\ calls[c].op # "arr" =>
                            /\ calls[c].result = heap[id].memory
                            /\ calls[c].uncached = <<>>

\* A fetch failed with one read queued on it, and a later read of the page
\* was answered at once: both hold the same error.
C4_Witness ==
    \E id \in Entries, c, d \in Calls :
        /\ heap[id].memory.kind = "error"
        /\ calls[c].touched = <<id>> /\ calls[c].queued = 1
        /\ calls[d].touched = <<id>> /\ calls[d].queued = 0
        /\ calls[c].result = heap[id].memory
        /\ calls[d].result = heap[id].memory
        /\ heap[id].hits = 2

\* ----------------------------------------------------------------- C5
\* The uncached reads of call c that await their answer.
UncachedOf(c) == {r \in remote : r.call = c /\ r.entry = 0 /\ r.fn # "GetPointerSize"}

CoversWholeRead(r, c) ==
    /\ r.address = calls[c].address
    /\ r.size = calls[c].size
    /\ r.isUnsigned = calls[c].isUnsigned
    /\ r.isFloat = calls[c].isFloat
    /\ r.count = calls[c].count

Declined(c) == {i \in DOMAIN calls[c].admitted : ~calls[c].admitted[i]}
Accepted(c) == {i \in DOMAIN calls[c].admitted : calls[c].admitted[i]}

\* C5: mixed-admission fallback.  A ReadArray for which loadPage declined at
\* least one page issues exactly one uncached JsDbg.ReadArray, for the whole
\* requested range; its continuation runs once, with that read's answer, and
\* the cached assembly never runs for it, whatever the accepted pages deliver.
C5_MixedFallback ==
    \A c \in Calls :
        (calls[c].op = "arr" /\ Declined(c) # {}) =>
            /\ calls[c].uncached = <<"ReadArray">>
            /\ calls[c].assembled = 0
            /\ Cardinality(UncachedOf(c)) <= 1
            /\ \A r \in UncachedOf(c) : r.fn = "ReadArray" /\ CoversWholeRead(r, c)
            /\ calls[c].delivered = (IF UncachedOf(c) = {} THEN 1 ELSE 0)
            /\ calls[c].result.kind = "array" =>
                  \E e \in 0..epoch :
                      calls[c].result.array =
                          RemoteArray(e, calls[c].address, calls[c].size, calls[c].count)

\* An array read with one page declined and one accepted has been answered by
\* its uncached read, and the accepted page has delivered its view as well.
C5_Witness ==
    \E c \in Calls :
        /\ calls[c].op = "arr"
        /\ Declined(c) # {} /\ Accepted(c) # {}
        /\ \E i \in Accepted(c) : HandedFor(c, i).kind = "view"
        /\ calls[c].delivered = 1
        /\ calls[c].result.kind = "array"

\* ----------------------------------------------------------------- C6
\* C6: threshold admission.  A touch that leaves the entry's hit counter below
\* CACHE_TRIGGER is recorded in the counter and declined; the read is answered
\* by exactly one uncached read of its own kind (JsDbg.ReadNumber for
\* ReadNumber, JsDbg.ReadArray for ReadArray), and no page fetch exists for an
\* entry below the threshold.
C6_Threshold ==
    /\ \A c \in Calls : \A i \in TouchedPages(c) :
          calls[c].hitsAt[i] < cacheTrigger =>
              /\ ~calls[c].admitted[i]
              /\ calls[c].hitsAt[i] >= 1
              /\ heap[calls[c].touched[i]].hits >= calls[c].hitsAt[i]
              /\ calls[c].uncached =
                    <<IF calls[c].op = "arr" THEN "ReadArray" ELSE "ReadNumber">>
              /\ calls[c].assembled = 0
              /\ calls[c].delivered = (IF UncachedOf(c) = {} THEN 1 ELSE 0)
    /\ \A id \in Entries :
          heap[id].hits < cacheTrigger =>
              /\ heap[id].fetches = 0
              /\ ~heap[id].inflight
              /\ heap[id].memory.kind = "null"
              /\ heap[id].callbacks = <<>>

\* With the threshold at 2, the first read of a page was declined, recorded and
\* answered by its uncached read; the page has not been fetched.
C6_Witness ==
    \E c \in Calls :
        /\ cacheTrigger = 2
        /\ calls[c].op = "num"
        /\ calls[c].hitsAt = <<1>>
        /\ calls[c].uncached = <<"ReadNumber">>
        /\ calls[c].delivered = 1
        /\ heap[calls[c].touched[1]].hits = 1
        /\ heap[calls[c].touched[1]].fetches = 0

\* ----------------------------------------------------------------- C7
\* The array study: one array read per run, made up to MaxCalls times one
\* after the other, of a kind the cache supports, starting two elements before
\* a page boundary or on it, short or (for the widest elements) a page longer
\* than short, which spans three pages.  How reads interleave and how failed
\* fetches are reported is the subject of the main study; here each read is
\* made once JsDbg has answered the requests of the one before, and JsDbg
\* answers every page fetch with the page.
Kinds == {k \in [size : 0..MaxItemSize, isUnsigned : BOOLEAN, isFloat : BOOLEAN] : TRUE}

ViewerOf(k) == getArrayViewer(k.size, k.isUnsigned, k.isFloat)

ArrayReads(k) ==
    { Read("arr", address, k.size, k.isUnsigned, k.isFloat, count) :
        address \in {PAGE_SIZE, PAGE_SIZE - 2 * k.size},
        count \in (0..MaxCount) \cup
                  (IF k.size = BYTES_PER_ELEMENT("Float64Array")
                   THEN {PAGE_SIZE \div k.size + MaxCount} ELSE {}) }

ArrayMenus ==
    { {read} : read \in UNION {ArrayReads(k) : k \in {k \in Kinds : ViewerOf(k) \notin Nullish}} }

InitArray ==
    /\ InitMachine
    /\ cacheTrigger = CACHE_TRIGGER
    /\ targetPointerSize \in PointerSizes
    /\ menu \in ArrayMenus

NextArray ==
    \/ remote = {} /\ ReadArray
    \/ OnBreak
    \/ PageFetchAnsweredWith(TRUE)

SpecArray == InitArray /\ [][NextArray]_vars

\* The view that call c was handed for the page holding `address`.
ViewHolding(c, address) ==
    calls[c].loadedViews[(getPage(address) - getPage(calls[c].address)) \div PAGE_SIZE + 1]

IsAligned(c) == calls[c].address % calls[c].size = 0

\* C7: cached/uncached equivalence for arrays.  A ReadArray of a supported
\* kind from an address aligned to the element size that is served by the
\* cached path, every page of its span fetched successfully, returns exactly
\* count elements; element i is what an uncached read of address + i * size
\* returns from the memory the page was fetched from, also when the range
\* crosses one or several page boundaries.
C7_ArrayEquivalence ==
    \A c \in Calls :
        (/\ calls[c].op = "arr"
         /\ IsAligned(c)
         /\ calls[c].assembled = 1
         /\ calls[c].result.kind = "array") =>
            /\ Len(calls[c].result.array) = calls[c].count
            /\ \A i \in 1..calls[c].count :
                  LET at == calls[c].address + (i - 1) * calls[c].size
                  IN calls[c].result.array[i] =
                        RemoteElem(ViewHolding(c, at).buffer.epoch, at, calls[c].size)

\* A cached array read that crossed a page boundary has returned its elements.
C7_Witness ==
    \E c \in Calls :
        /\ calls[c].op = "arr"
        /\ IsAligned(c)
        /\ calls[c].assembled = 1
        /\ calls[c].result.kind = "array"
        /\ Len(calls[c].loadedViews) = 3
        /\ calls[c].count > PAGE_SIZE \div calls[c].size
        /\ Len(calls[c].result.array) = calls[c].count

\* ----------------------------------------------------------------- C8
\* The element-kind study: one read per run, of any size up to MaxItemSize,
\* signed or unsigned, float or not, a number or an array of one element or
\* of none; the pointer reads are kept so that every handler takes part.
KindMenus ==
    { {Read("num", PAGE_SIZE, k.size, k.isUnsigned, k.isFloat, 1)} : k \in Kinds }
    \cup
    { {Read("arr", PAGE_SIZE, kc[1].size, kc[1].isUnsigned, kc[1].isFloat, kc[2])} :
        kc \in Kinds \X {0, 1} }

InitKinds ==
    /\ InitMachine
    /\ cacheTrigger = CACHE_TRIGGER
    /\ targetPointerSize \in PointerSizes
    /\ menu \in KindMenus \cup {Pointers}

SpecKinds == InitKinds /\ [][Next]_vars

\* The kinds the claim lists: integers of 1, 2, 4 or 8 bytes, floats of 4 or 8.
ClaimedKind(size, isUnsigned, isFloat) ==
    IF isFloat THEN size \in {4, 8} ELSE size \in {1, 2, 4, 8}

\* The same without the 8-byte integers.
SupportedKind(size, isUnsigned, isFloat) ==
    IF isFloat THEN size \in {4, 8} ELSE size \in {1, 2, 4}

\* loadPage's gate on the element kind lets exactly the kinds in Supported
\* pass; a kind that passes is admitted once the page's hits reach the
\* threshold, and any other kind is declined before an entry is looked up.
GateAdmits(Supported(_, _, _)) ==
    \A c \in Calls :
        calls[c].viewer # "unset" =>
            LET supported == Supported(calls[c].size, calls[c].isUnsigned, calls[c].isFloat)
            IN /\ (calls[c].viewer \in Nullish) <=> ~supported
               /\ \A i \in DOMAIN calls[c].admitted :
                     IF supported
                     THEN /\ calls[c].touched[i] # 0
                          /\ calls[c].admitted[i] <=> (calls[c].hitsAt[i] >= cacheTrigger)
                     ELSE /\ calls[c].touched[i] = 0
                          /\ ~calls[c].admitted[i]

\* C8 as claimed: the gate passes exactly the integers of 1, 2, 4 or 8 bytes
\* and the floats of 4 or 8 bytes.
C8_GateAsClaimed == GateAdmits(ClaimedKind)

\* C8 as amended: the gate passes exactly the integers of 1, 2 or 4 bytes,
\* signed or unsigned, and the floats of 4 or 8 bytes; every such kind is
\* admitted subject only to the hit threshold and every other combination of
\* size, isUnsigned and isFloat, the 8-byte integers included, is declined.
C8_CapabilityGate == GateAdmits(SupportedKind)

\* An 8-byte integer read was declined by the gate and sent to JsDbg.
C8_Witness ==
    \E c \in Calls :
        /\ calls[c].op = "num"
        /\ calls[c].size = 8 /\ ~calls[c].isFloat
        /\ calls[c].touched = <<0>>
        /\ calls[c].admitted = <<FALSE>>
        /\ calls[c].uncached = <<"ReadNumber">>

\* ----------------------------------------------------------------- C9
\* C9: the pointer width is resolved once.  Over any interleaving of
\* ReadPointer calls, pointer-size answers and invalidations,
\* JsDbg.GetPointerSize is queried at most once.
C9_QueriedAtMostOnce == sizeQueries <= 1

\* ----------------------------------------------------------------- C10
\* C10: provided JsDbg answers every request, with a value or with a failure,
\* every ReadPointer call invokes its continuation exactly once after a bounded
\* number of requests: the pointer-size query and the read it was made for.
C10_PointerReadAnswered ==
    \A c \in Calls :
        calls[c].op = "ptr" =>
            /\ calls[c].delivered <= 1
            /\ calls[c].requests <= 2
            /\ Settled(c) => calls[c].delivered = 1

\* ----------------------------------------------------------------- C11
\* loadPage accepted every page of the span of call c.
AllAdmitted(c) == calls[c].admitted # <<>> /\ Declined(c) = {}

\* The pages of call c that resolved to an error, by position in the span.
ErrorPages(c) ==
    {i \in DOMAIN calls[c].loadedViews : calls[c].loadedViews[i].kind = "error"}

\* Every page of the span of call c has delivered its view or its error.
AllResolved(c) ==
    \A i \in DOMAIN calls[c].loadedViews : calls[c].loadedViews[i].kind # "empty"

\* C11: array error reporting.  A ReadArray whose pages were all admitted and
\* of which at least one resolved to an error never receives an array, partial
\* or complete: once every page has resolved its continuation has run once,
\* with the error of the first such page in address order, in whatever order
\* the page fetches completed; until then it has not run.
C11_FirstError ==
    \A c \in Calls :
        (calls[c].op = "arr" /\ AllAdmitted(c) /\ ErrorPages(c) # {}) =>
            /\ calls[c].result.kind # "array"
            /\ calls[c].uncached = <<>>
            /\ IF AllResolved(c)
               THEN /\ calls[c].delivered = 1
                    /\ calls[c].result =
                          calls[c].loadedViews[
                              CHOOSE i \in ErrorPages(c) : \A j \in ErrorPages(c) : i <= j]
               ELSE /\ calls[c].delivered = 0
                    /\ calls[c].result = Null

\* Both pages of an array read failed, the second one a session earlier than
\* the first: the read reports the error of the first page.
C11_Witness ==
    \E c \in Calls :
        /\ calls[c].op = "arr" /\ AllAdmitted(c)
        /\ ErrorPages(c) = {1, 2}
        /\ calls[c].loadedViews[2].at < calls[c].loadedViews[1].at
        /\ calls[c].delivered = 1
        /\ calls[c].result = calls[c].loadedViews[1]

\* ----------------------------------------------------------------- C12
\* The page fetch r is answered in this step.
Completes(r) == r.fn = "ReadArray" /\ r.entry # 0 /\ r \notin remote'

\* What memoryCallback hands the callback of closure w for `memory`.
HandedBy(w, memory) ==
    IF memory.kind = "error" THEN memory ELSE NewView(w.viewer, memory)

\* In a step that completes the fetch of an entry, the closures queued on the
\* entry are called once each, oldest first, every one with the state the entry
\* ends up in, and the queue is empty afterwards.
NotifiedInOrder ==
    \A r \in remote :
        Completes(r) =>
            LET id == r.entry
                queue == heap[id].callbacks
            IN /\ heap'[id].notified = heap[id].notified \o queue
               /\ heap'[id].callbacks = <<>>
               /\ heap'[id].memory.kind \in {"buffer", "error"}
               /\ \A k \in DOMAIN queue :
                     LET w == queue[k]
                     IN /\ HandedFor(w.call, w.index) = Empty
                        /\ calls'[w.call].loadedViews[w.index] =
                              HandedBy(w, heap'[id].memory)
                        /\ \A j \in DOMAIN queue : queue[j] = w => j = k

\* A step never reorders a queue: closures are only added at its end, until
\* the completion of the fetch empties it.
QueueGrowsAtEnd ==
    \A id \in Entries :
        heap'[id].callbacks # <<>> =>
            /\ Len(heap'[id].callbacks) >= Len(heap[id].callbacks)
            /\ SubSeq(heap'[id].callbacks, 1, Len(heap[id].callbacks)) = heap[id].callbacks

\* C12: FIFO notification.  When a page fetch completes, the continuations
\* queued on that page's entry are each notified exactly once, in the order
\* they were enqueued, all with the same final state (the same buffer or the
\* same error), and the queue is empty afterwards.
C12_FifoNotification == [][NotifiedInOrder /\ QueueGrowsAtEnd]_vars

\* A fetch completed with two closures queued: the one of the earlier call was
\* called first, and both were handed views of the entry's one buffer.
C12_Witness ==
    \E id \in Entries :
        /\ Len(heap[id].notified) = 2
        /\ heap[id].notified[1].call < heap[id].notified[2].call
        /\ heap[id].callbacks = <<>>
        /\ heap[id].memory.kind = "buffer"
        /\ \A k \in 1..2 :
              HandedFor(heap[id].notified[k].call, heap[id].notified[k].index).buffer
                  = heap[id].memory

\* ----------------------------------------------------------------- C13
\* Invalidation has dropped entry id from the cache.
Orphaned(id) == cache[heap[id].page] # id

\* The calls that have a closure in `queue`.
CallsIn(queue) == {queue[k].call : k \in DOMAIN queue}

\* The completion of a fetch whose entry invalidation has dropped calls the
\* closures queued on that entry and nothing else: the cache maps the same
\* pages to the same entries, no entry is created, no entry the cache holds is
\* changed, and no other call hears of it.
OrphanCompletionIsLocal ==
    \A r \in remote :
        (Completes(r) /\ Orphaned(r.entry)) =>
            /\ cache' = cache
            /\ Len(heap') = Len(heap)
            /\ \A id \in Entries : id # r.entry => heap'[id] = heap[id]
            /\ heap'[r.entry].notified =
                  heap[r.entry].notified \o heap[r.entry].callbacks
            /\ \A c \in Calls :
                  c \notin CallsIn(heap[r.entry].callbacks) => calls'[c] = calls[c]

\* The touches the calls have made of entry id.
TouchesOf(id) ==
    SumOver(Calls,
            [c \in Calls |->
                Cardinality({i \in TouchedPages(c) : calls[c].touched[i] = id})])

\* An entry belongs to the session it was created in: a read touches entries
\* of the session in which it looks its pages up (the session of the call, or
\* for a ReadPointer that had to wait for the pointer size, possibly a later
\* one), the entry's hit counter counts exactly these touches, and it has a
\* page fetch of its own once they reach the threshold.
EntriesAreSessionLocal ==
    /\ \A c \in Calls : \A i \in TouchedPages(c) :
          /\ heap[calls[c].touched[i]].born >= calls[c].epoch
          /\ calls[c].op # "ptr" => heap[calls[c].touched[i]].born = calls[c].epoch
    /\ \A id \in Entries :
          /\ heap[id].hits = TouchesOf(id)
          /\ heap[id].fetches = (IF heap[id].hits >= cacheTrigger THEN 1 ELSE 0)

\* C13: in-flight fetch across invalidation.  When clearCache runs while a page
\* fetch is in flight, the completion of the fetch still notifies exactly the
\* continuations queued on the original entry and neither creates, fills nor
\* modifies an entry of the cache that exists after the invalidation; a read of
\* the page made after the invalidation creates a new entry with a hit count
\* and a fetch of its own.
C13_FetchAcrossInvalidation ==
    []EntriesAreSessionLocal /\ [][OrphanCompletionIsLocal]_vars

\* A fetch issued in session 0 completed in session 1 and called its waiter,
\* while the page's new entry, touched once, still waits for its own fetch.
C13_Witness ==
    \E old, new \in Entries :
        /\ heap[old].page = heap[new].page
        /\ heap[old].born = 0 /\ Orphaned(old)
        /\ heap[old].memory.kind = "buffer" /\ heap[old].memory.epoch = 1
        /\ Len(heap[old].notified) = 1
        /\ calls[heap[old].notified[1].call].delivered = 1
        /\ cache[heap[new].page] = new
        /\ heap[new].hits = 1 /\ heap[new].memory.kind = "null"
        /\ Cardinality(FetchesOf(new)) = 1

\* ----------------------------------------------------------------- C14
\* C14: the pending flag of an entry is true exactly while a page fetch issued
\* for the entry has not completed: set when the fetch is issued, cleared when
\* it completes, with the page or with a failure.
C14_PendingWhileFetching ==
    \A id \in Entries : heap[id].inflight <=> FetchesOf(id) # {}

\* ----------------------------------------------------------------- C15
\* The entry holds the cached bytes of its page.
HoldsBytes(e) == e.memory.kind = "buffer"

\* The entry holds the error its fetch reported.
HoldsError(e) == e.memory.kind = "error" \/ e.error.kind # "null"

AtMostOneOfBytesAndError ==
    \A id \in Entries : ~(HoldsBytes(heap[id]) /\ HoldsError(heap[id]))

\* No step changes what an entry holds once it holds bytes or an error.
ResolvedIsImmutable ==
    \A id \in Entries :
        (HoldsBytes(heap[id]) \/ HoldsError(heap[id])) =>
            /\ heap'[id].memory = heap[id].memory
            /\ heap'[id].error = heap[id].error

\* C15: in every reachable state every cache entry holds at most one of cached
\* bytes and a stored error, and once it holds either one, that is never
\* changed or replaced for as long as the entry exists.
C15_ResolvedOnce == []AtMostOneOfBytesAndError /\ [][ResolvedIsImmutable]_vars

\* An entry was filled for its first reader and then read again: it holds the
\* bytes of its one fetch.
C15_Witness ==
    \E id \in Entries, c \in Calls :
        /\ HoldsBytes(heap[id])
        /\ heap[id].hits = 2 /\ heap[id].fetches = 1
        /\ Len(heap[id].notified) = 1
        /\ calls[c].touched = <<id>> /\ calls[c].queued = 0
        /\ calls[c].delivered = 1

\* ----------------------------------------------------------------- C16
\* C16: in every reachable state (between two handlers) the waiter queue of an
\* entry is non-empty only if the entry's pending flag is true; no continuation
\* is left queued on an entry whose fetch has completed, nor on one for which
\* no fetch was issued.
C16_QueuedOnlyWhilePending ==
    \A id \in Entries :
        heap[id].callbacks # <<>> =>
            /\ heap[id].inflight
            /\ heap[id].fetches = 1
            /\ FetchesOf(id) # {}
            /\ heap[id].memory.kind = "null"

\* With the threshold at 2: one entry has its fetch in flight and a closure
\* queued, another was touched once, has no fetch and an empty queue, and a
\* read that touched it has been answered.
C16_Witness ==
    \E a, b \in Entries, c \in Calls :
        /\ heap[a].callbacks # <<>> /\ heap[a].inflight
        /\ heap[b].hits = 1 /\ heap[b].fetches = 0 /\ heap[b].callbacks = <<>>
        /\ b \in {calls[c].touched[i] : i \in DOMAIN calls[c].touched}
        /\ calls[c].delivered = 1

\* ----------------------------------------------------------------- C17
\* Call c is a ReadNumber or ReadArray of a kind no typed array exists for.
IsUnsupportedRead(c) == IsRead(c) /\ calls[c].viewer \in Nullish

\* What JsDbg answers the uncached read of call c with, in some session.
RemoteAnswers(c) ==
    { IF calls[c].op = "arr"
      THEN [kind |-> "array",
            array |-> RemoteArray(e, calls[c].address, calls[c].size, calls[c].count)]
      ELSE [kind |-> "value",
            value |-> RemoteElem(e, calls[c].address, calls[c].size)] : e \in 0..epoch }

\* A read of an unsupported kind has issued exactly one uncached read of its
\* own kind and range, touched no entry and queued nothing, and its
\* continuation runs once, with the answer to that read as JsDbg gave it.
UnsupportedGoesUncached ==
    \A c \in Calls :
        IsUnsupportedRead(c) =>
            /\ TouchedPages(c) = {} /\ calls[c].queued = 0
            /\ calls[c].requests = 1
            /\ calls[c].uncached =
                  <<IF calls[c].op = "arr" THEN "ReadArray" ELSE "ReadNumber">>
            /\ \A r \in UncachedOf(c) : CoversWholeRead(r, c)
            /\ calls[c].delivered = (IF UncachedOf(c) = {} THEN 1 ELSE 0)
            /\ calls[c].delivered = 1 =>
                  \/ calls[c].result \in RemoteAnswers(c)
                  \/ calls[c].result.kind = "error"

\* The step that makes a read of an unsupported kind leaves the cache as it was.
UnsupportedLeavesCache ==
    (Len(calls') > Len(calls) /\ calls'[Len(calls')].op \in {"num", "arr"}
        /\ calls'[Len(calls')].viewer \in Nullish) =>
            /\ cache' = cache
            /\ heap' = heap

\* C17: a ReadNumber or ReadArray with an unsupported element kind leaves the
\* cache unchanged (no entry, no hit, no waiter, no page fetch), issues
\* exactly one uncached read, and its continuation receives that read's
\* result, value or failure, unmodified.
C17_UnsupportedFrame == []UnsupportedGoesUncached /\ [][UnsupportedLeavesCache]_vars

\* ----------------------------------------------------------------- C18
\* The hit counter of page p in a cache given by its map and its entries;
\* 0 when the page has no entry.
HitsOf(map, entries, p) == IF map[p] = 0 THEN 0 ELSE entries[map[p]].hits

\* The pages spanned by an array read.
SpanOf(call) ==
    LET pages == calculatePagesForArray(call.address, call.size, call.count)
    IN {pages[i] : i \in DOMAIN pages}

AnyKind(call) == TRUE
ViewableKind(call) == call.viewer \notin Nullish

\* The step that makes a ReadArray of a kind in Counted adds one to the hit
\* counter of every page of its span, and to no other.
ArrayTouchesItsSpan(Counted(_)) ==
    LET new == calls'[Len(calls')]
    IN (Len(calls') > Len(calls) /\ new.op = "arr" /\ Counted(new)) =>
           \A p \in Pages :
               HitsOf(cache', heap', p) =
                   HitsOf(cache, heap, p) + (IF p \in SpanOf(new) THEN 1 ELSE 0)

\* A page that reached the threshold during an array read that fell back has
\* its fetch issued all the same, and once that fetch is answered the entry
\* holds its outcome; the read itself is answered by its uncached read.
ThresholdPageStillFetched ==
    \A c \in Calls :
        (calls[c].op = "arr" /\ Declined(c) # {}) =>
            \A i \in TouchedPages(c) :
                calls[c].hitsAt[i] = cacheTrigger =>
                    LET id == calls[c].touched[i]
                    IN /\ calls[c].admitted[i]
                       /\ heap[id].fetches = 1
                       /\ FetchesOf(id) # {} \/ heap[id].memory.kind # "null"
                       /\ calls[c].assembled = 0

\* C18 as claimed: every ReadArray increments the hit counter of each page in
\* its span by exactly one.
C18_EveryArrayCounts == [][ArrayTouchesItsSpan(AnyKind)]_vars

\* C18 as amended: every ReadArray of a supported element kind increments the
\* hit counter of each page in its span by exactly one, whether or not the
\* read as a whole falls back to the uncached path; a page that reaches the
\* threshold during such a read still has its fetch issued and its entry
\* filled, although the result of the read comes from the uncached read.
C18_SupportedArrayCounts ==
    [][ArrayTouchesItsSpan(ViewableKind)]_vars /\ []ThresholdPageStillFetched

\* With the threshold at 2, an array read found its first page below the
\* threshold and brought its second page to it: it was answered by the
\* uncached read, and the second page has been fetched into its entry.
C18_Witness ==
    \E c \in Calls :
        /\ calls[c].op = "arr" /\ cacheTrigger = 2
        /\ calls[c].hitsAt = <<1, 2>>
        /\ calls[c].admitted = <<FALSE, TRUE>>
        /\ heap[calls[c].touched[2]].memory.kind = "buffer"
        /\ calls[c].assembled = 0
        /\ calls[c].result.kind = "array"

\* ----------------------------------------------------------------- C19
\* C19: once the entry of a page has been touched CACHE_TRIGGER times it is
\* always pending (flagged, its fetch awaiting the answer) or resolved (bytes
\* or error), so no later read of a supported kind is declined on that page
\* or sent to the uncached path because of it; no entry is stuck with its hits
\* at or above the threshold, nothing cached and nothing in flight.
C19_NeverStuck ==
    /\ \A id \in Entries :
          heap[id].hits >= cacheTrigger =>
              \/ heap[id].inflight /\ FetchesOf(id) # {} /\ heap[id].memory.kind = "null"
              \/ heap[id].memory.kind \in {"buffer", "error"} /\ FetchesOf(id) = {}
    /\ \A c \in Calls :
          /\ \A i \in TouchedPages(c) :
                calls[c].hitsAt[i] >= cacheTrigger => calls[c].admitted[i]
          /\ (TouchedPages(c) # {} /\
                  \A i \in TouchedPages(c) : calls[c].hitsAt[i] >= cacheTrigger) =>
                calls[c].uncached = <<>>

\* A read touched a page whose entry had already reached the threshold and had
\* its fetch in flight: it was accepted and waits for that fetch.
C19_Witness ==
    \E c \in Calls :
        /\ calls[c].op = "num"
        /\ calls[c].hitsAt = <<cacheTrigger + 1>>
        /\ calls[c].admitted = <<TRUE>>
        /\ calls[c].queued = 1 /\ calls[c].requests = 0
        /\ heap[calls[c].touched[1]].inflight
        /\ FetchesOf(calls[c].touched[1]) # {}

\* ----------------------------------------------------------------- C20
\* The number study: the callers read single values of one supported kind from
\* one page: its first element, its last element, and the address one byte
\* past its first element (unaligned for every kind wider than a byte).
NumberReads(k) ==
    { Read("num", PAGE_SIZE + at, k.size, k.isUnsigned, k.isFloat, 1) :
        at \in {0, PAGE_SIZE - k.size, 1} }

NumberMenus == { NumberReads(k) : k \in {k \in Kinds : ViewerOf(k) \notin Nullish} }

InitNumber ==
    /\ InitMachine
    /\ cacheTrigger = CACHE_TRIGGER
    /\ targetPointerSize \in PointerSizes
    /\ menu \in NumberMenus

NextNumber ==
    \/ ReadNumber
    \/ OnBreak
    \/ PageFetchAnswered

SpecNumber == InitNumber /\ [][NextNumber]_vars

\* Call c is a ReadNumber that was answered with a value from the cache.
ServedFromBuffer(c) ==
    /\ calls[c].op = "num"
    /\ calls[c].uncached = <<>>
    /\ calls[c].delivered = 1
    /\ calls[c].result.kind = "value"

\* C20: single-value cached read.  For every address aligned to the element
\* size and every supported kind, a ReadNumber served from a page's buffer
\* returns the element at index (address mod 4096) / size of the view over
\* that buffer, which holds the bytes at the address; the index is within the
\* view's bounds; and the view is one over the single buffer fetched for the
\* page's entry, so that concurrent reads at distinct offsets of the page
\* take their values from the same buffer.
C20_SingleValue ==
    \A c \in Calls :
        (ServedFromBuffer(c) /\ IsAligned(c)) =>
            LET view == calls[c].loadedViews[1]
                index == (calls[c].address % PAGE_SIZE) \div calls[c].size
                id == calls[c].touched[1]
            IN /\ view.kind = "view"
               /\ view.viewer = getArrayViewer(calls[c].size, calls[c].isUnsigned,
                                               calls[c].isFloat)
               /\ index \in 0..(ViewLength(view) - 1)
               /\ ViewLength(view) * calls[c].size = PAGE_SIZE
               /\ calls[c].result.value = ViewElem(view, index)
               /\ calls[c].result.value =
                     RemoteElem(view.buffer.epoch, calls[c].address, calls[c].size)
               /\ view.buffer = heap[id].memory
               /\ view.buffer.base = getPage(calls[c].address)
               /\ heap[id].fetches = 1

\* Two reads of 4-byte values at distinct offsets of a page arrived before the
\* page did; one of them asked for address page + 4092 and got element 1023.
C20_Witness ==
    \E c, d \in Calls :
        /\ ServedFromBuffer(c) /\ ServedFromBuffer(d)
        /\ calls[c].queued = 1 /\ calls[d].queued = 1
        /\ calls[c].touched = calls[d].touched
        /\ calls[c].size = 4
        /\ calls[c].address = PAGE_SIZE + 4092
        /\ calls[d].address = PAGE_SIZE
        /\ calls[c].result.value = ViewElem(calls[c].loadedViews[1], 1023)
        /\ calls[c].loadedViews[1].buffer = calls[d].loadedViews[1].buffer

====
